---- MODULE Spec2Model ----
(***************************************************************************)
(* Model of AudioCaptureManagerPreload (renderer side audio capture):      *)
(* the source registry (browser views and external devices), the gain      *)
(* nodes wired into _audioOutputNode (the mix bus), the PCM stream worklet *)
(* nodes tapping the bus, and the WebSocket the frames are sent over.      *)
(***************************************************************************)
EXTENDS Integers, Sequences, FiniteSets, TLC

\* ------------------------------------------------------------------ bounds
MaxStreams == 2     \* getUserMedia requests issued in one run
MaxTaps    == 2     \* start(mode) calls issued in one run
MaxFrames  == 2     \* frames the worklets post in one run
MaxSockets == 1     \* setup() calls issued in one run
MaxPort    == 2     \* messages in flight between worklet and main thread

\* ------------------------------------------------------- program constants
LowLatencyBufferSize  == 256
PerformanceBufferSize == 64000

BrowserView    == "BrowserView"
ExternalDevice == "ExternalDevice"
Kinds   == {BrowserView, ExternalDevice}
Modes   == {"lowLatency", "performance"}

\* identifiers the callers use: view ids are numbers, device ids strings
ViewIds   == {5}
DeviceIds == {"5", "mic-1"}

DigitChar == <<"0", "1", "2", "3", "4", "5", "6", "7", "8", "9">>

\* property key of a number index (obj[5] and obj["5"] are the same slot)
RECURSIVE ToKey(_)
ToKey(n) ==
  IF n < 10 THEN DigitChar[n + 1]
  ELSE ToKey(n \div 10) \o DigitChar[(n % 10) + 1]

ViewKeys == {ToKey(v) : v \in ViewIds}
Keys     == ViewKeys \cup DeviceIds
Sources  == ({BrowserView} \X ViewKeys) \cup ({ExternalDevice} \X DeviceIds)

VARIABLES
  _mediaStreams,               \* key -> index into streams
  _mediaStreamOutputs,         \* key -> index into gains
  _externalAudioStreams,       \* key -> index into streams
  _externalAudioStreamOutputs, \* key -> index into gains
  streams,        \* MediaStream objects obtained from getUserMedia
  gains,          \* GainNode objects created by createGain for a source
  pendingCapture, \* per source: getUserMedia calls still awaited
  lastOp,         \* per source: last of start/stop that was invoked
  sockets,        \* WebSocket objects created by _setupWebsocket
  _ws,            \* index into sockets, 0 = undefined
  setupPending,   \* setup() calls awaiting ipcRenderer.invoke
  _audioOutputElement, \* "undefined", "unmuted" or "muted"
  startPending,   \* per mode: start() calls awaiting addModule
  taps,           \* pcmStreamNode objects
  port,           \* messages posted by the worklets, not yet handled
  produced,       \* every frame posted by a worklet, in posting order
  sent,           \* every frame passed to _ws.send, in call order
  handedNotOpen,  \* frames handed to onmessage while no socket was OPEN
  last            \* the operation performed by the last step

vars == << _mediaStreams, _mediaStreamOutputs, _externalAudioStreams,
           _externalAudioStreamOutputs, streams, gains, pendingCapture,
           lastOp, sockets, _ws, setupPending, _audioOutputElement,
           startPending, taps, port, produced, sent, handedNotOpen, last >>

registryVars == << _mediaStreams, _mediaStreamOutputs, _externalAudioStreams,
                   _externalAudioStreamOutputs >>
captureVars  == << registryVars, streams, gains, pendingCapture, lastOp >>
socketVars   == << sockets, _ws, setupPending, _audioOutputElement >>
frameVars    == << startPending, taps, port, produced, sent, handedNotOpen >>

\* ----------------------------------------------------------------- helpers
EmptyMap == [k \in {} |-> 0]

\* obj[key] = value
Put(map, key, value) ==
  [k \in (DOMAIN map) \cup {key} |-> IF k = key THEN value ELSE map[k]]

\* delete obj[key]
Delete(map, key) == [k \in (DOMAIN map) \ {key} |-> map[k]]

\* what the last step did; every field is a string
BoolStr(b) == IF b THEN "true" ELSE "false"

Op(name, kind, key, arg) == [op |-> name, kind |-> kind, key |-> key, arg |-> arg]

RECURSIVE SumOver(_, _)
SumOver(f, S) ==
  IF S = {} THEN 0
  ELSE LET s == CHOOSE x \in S : TRUE IN f[s] + SumOver(f, S \ {s})

\* getUserMedia requests issued so far (resolved ones made a stream or threw)
Requested == Len(streams) + SumOver(pendingCapture, Sources)

Init ==
  /\ _mediaStreams = EmptyMap
  /\ _mediaStreamOutputs = EmptyMap
  /\ _externalAudioStreams = EmptyMap
  /\ _externalAudioStreamOutputs = EmptyMap
  /\ streams = << >>
  /\ gains = << >>
  /\ pendingCapture = [s \in Sources |-> 0]
  /\ lastOp = [s \in Sources |-> "none"]
  /\ sockets = << >>
  /\ _ws = 0
  /\ setupPending = 0
  /\ _audioOutputElement = "undefined"
  /\ startPending = [m \in Modes |-> 0]
  /\ taps = << >>
  /\ port = << >>
  /\ produced = << >>
  /\ sent = << >>
  /\ handedNotOpen = {}
  /\ last = Op("constructor", "-", "-", "-")

\* ------------------------------------------------- capture: shared pieces
\* a MediaStream as getUserMedia resolves it: its tracks are live
NewStream(kind, key) == [kind |-> kind, key |-> key, stopped |-> FALSE]

\* createGain() (gain.value defaults to 1), then createMediaStreamSource and
\* the two connect calls; threw is TRUE when createMediaStreamSource throws
\* and control jumps to the catch block before output.connect
NewGain(streamIx, threw) ==
  [value |-> 1, connected |-> ~threw, stream |-> IF threw THEN 0 ELSE streamIx]

\* for (track of stream.getTracks()) track.stop()
StopTracks(ix) == [streams EXCEPT ![ix].stopped = TRUE]

\* ------------------------------------------- startBrowserViewStream(viewId)
\* up to the await of getUserMedia
startBrowserViewStream(viewId) ==
  LET key == ToKey(viewId) IN
  /\ Requested < MaxStreams
  /\ pendingCapture' = [pendingCapture EXCEPT ![<<BrowserView, key>>] = @ + 1]
  /\ lastOp' = [lastOp EXCEPT ![<<BrowserView, key>>] = "start"]
  /\ last' = Op("start", BrowserView, key, "call")
  /\ UNCHANGED << registryVars, streams, gains, socketVars, frameVars >>

\* getUserMedia resolved: the rest of the try block
startBrowserViewStream_resolved(viewId, threw) ==
  LET key == ToKey(viewId) IN
  /\ pendingCapture[<<BrowserView, key>>] > 0
  /\ pendingCapture' = [pendingCapture EXCEPT ![<<BrowserView, key>>] = @ - 1]
  /\ streams' = Append(streams, NewStream(BrowserView, key))
  /\ _mediaStreams' = Put(_mediaStreams, key, Len(streams) + 1)
  /\ gains' = Append(gains, NewGain(Len(streams) + 1, threw))
  /\ _mediaStreamOutputs' = Put(_mediaStreamOutputs, key, Len(gains) + 1)
  /\ last' = Op("start", BrowserView, key, IF threw THEN "threw" ELSE "done")
  /\ UNCHANGED << _externalAudioStreams, _externalAudioStreamOutputs, lastOp,
                  socketVars, frameVars >>

\* getUserMedia rejected: the catch block only logs
startBrowserViewStream_rejected(viewId) ==
  LET key == ToKey(viewId) IN
  /\ pendingCapture[<<BrowserView, key>>] > 0
  /\ pendingCapture' = [pendingCapture EXCEPT ![<<BrowserView, key>>] = @ - 1]
  /\ last' = Op("start", BrowserView, key, "rejected")
  /\ UNCHANGED << registryVars, streams, gains, lastOp, socketVars, frameVars >>

\* -------------------------------------------- stopBrowserViewStream(viewId)
stopBrowserViewStream(viewId) ==
  LET key == ToKey(viewId) IN
  /\ IF key \in DOMAIN _mediaStreams
       THEN /\ streams' = StopTracks(_mediaStreams[key])
            /\ _mediaStreams' = Delete(_mediaStreams, key)
       ELSE UNCHANGED << streams, _mediaStreams >>
  /\ lastOp' = [lastOp EXCEPT ![<<BrowserView, key>>] = "stop"]
  /\ last' = Op("stop", BrowserView, key,
                IF key \in DOMAIN _mediaStreams THEN "active" ELSE "absent")
  /\ UNCHANGED << _mediaStreamOutputs, _externalAudioStreams,
                  _externalAudioStreamOutputs, gains, pendingCapture,
                  socketVars, frameVars >>

\* --------------------------------------- startExternalAudioCapture(deviceId)
startExternalAudioCapture(deviceId) ==
  /\ Requested < MaxStreams
  /\ pendingCapture' = [pendingCapture EXCEPT ![<<ExternalDevice, deviceId>>] = @ + 1]
  /\ lastOp' = [lastOp EXCEPT ![<<ExternalDevice, deviceId>>] = "start"]
  /\ last' = Op("start", ExternalDevice, deviceId, "call")
  /\ UNCHANGED << registryVars, streams, gains, socketVars, frameVars >>

startExternalAudioCapture_resolved(deviceId, threw) ==
  /\ pendingCapture[<<ExternalDevice, deviceId>>] > 0
  /\ pendingCapture' = [pendingCapture EXCEPT ![<<ExternalDevice, deviceId>>] = @ - 1]
  /\ streams' = Append(streams, NewStream(ExternalDevice, deviceId))
  /\ _externalAudioStreams' = Put(_externalAudioStreams, deviceId, Len(streams) + 1)
  /\ gains' = Append(gains, NewGain(Len(streams) + 1, threw))
  /\ _externalAudioStreamOutputs' =
       Put(_externalAudioStreamOutputs, deviceId, Len(gains) + 1)
  /\ last' = Op("start", ExternalDevice, deviceId, IF threw THEN "threw" ELSE "done")
  /\ UNCHANGED << _mediaStreams, _mediaStreamOutputs, lastOp, socketVars, frameVars >>

\* a catch block that answers a failed request by dropping every capture
startExternalAudioCapture_rejectedDropAll(deviceId) ==
  /\ pendingCapture[<<ExternalDevice, deviceId>>] > 0
  /\ pendingCapture' = [pendingCapture EXCEPT ![<<ExternalDevice, deviceId>>] = @ - 1]
  /\ _mediaStreams' = EmptyMap
  /\ _mediaStreamOutputs' = EmptyMap
  /\ _externalAudioStreams' = EmptyMap
  /\ _externalAudioStreamOutputs' = EmptyMap
  /\ last' = Op("start", ExternalDevice, deviceId, "rejected")
  /\ UNCHANGED << streams, gains, lastOp, socketVars, frameVars >>

startExternalAudioCapture_rejected(deviceId) ==
  /\ pendingCapture[<<ExternalDevice, deviceId>>] > 0
  /\ pendingCapture' = [pendingCapture EXCEPT ![<<ExternalDevice, deviceId>>] = @ - 1]
  /\ last' = Op("start", ExternalDevice, deviceId, "rejected")
  /\ UNCHANGED << registryVars, streams, gains, lastOp, socketVars, frameVars >>

\* ---------------------------------------- stopExternalAudioCapture(deviceId)
stopExternalAudioCapture(deviceId) ==
  /\ IF deviceId \in DOMAIN _externalAudioStreams
       THEN /\ streams' = StopTracks(_externalAudioStreams[deviceId])
            /\ _externalAudioStreams' = Delete(_externalAudioStreams, deviceId)
            /\ _externalAudioStreamOutputs' =
                 Delete(_externalAudioStreamOutputs, deviceId)
       ELSE UNCHANGED << streams, _externalAudioStreams,
                         _externalAudioStreamOutputs >>
  /\ lastOp' = [lastOp EXCEPT ![<<ExternalDevice, deviceId>>] = "stop"]
  /\ last' = Op("stop", ExternalDevice, deviceId,
                IF deviceId \in DOMAIN _externalAudioStreams
                  THEN "active" ELSE "absent")
  /\ UNCHANGED << _mediaStreams, _mediaStreamOutputs, gains, pendingCapture,
                  socketVars, frameVars >>

\* ------------------------------------------------------ setMuted(id, muted)
\* a setMuted that looks the id up in the maps of both kinds
setMutedAnyKind(kind, key, muted) ==
  /\ gains' = [g \in 1..Len(gains) |->
                 IF \/ (key \in DOMAIN _mediaStreamOutputs
                          /\ g = _mediaStreamOutputs[key])
                    \/ (key \in DOMAIN _externalAudioStreamOutputs
                          /\ g = _externalAudioStreamOutputs[key])
                   THEN [gains[g] EXCEPT !.value = IF muted THEN 0 ELSE 1]
                   ELSE gains[g]]
  /\ last' = Op("setMuted", kind, key, BoolStr(muted))
  /\ UNCHANGED << registryVars, streams, pendingCapture, lastOp,
                  socketVars, frameVars >>

\* the method takes the id alone and looks only at _mediaStreamOutputs; kind
\* is what the caller means the id to be and plays no part in the lookup
setMuted(kind, key, muted) ==
  /\ IF key \in DOMAIN _mediaStreamOutputs
       THEN gains' = [gains EXCEPT ![_mediaStreamOutputs[key]].value =
                                      IF muted THEN 0 ELSE 1]
       ELSE UNCHANGED gains
  /\ last' = Op("setMuted", kind, key, BoolStr(muted))
  /\ UNCHANGED << registryVars, streams, pendingCapture, lastOp,
                  socketVars, frameVars >>

\* ------------------------------------------------------------------ setup()
\* up to the await of ipcRenderer.invoke in _setupWebsocket
setup ==
  /\ Len(sockets) + setupPending < MaxSockets
  /\ setupPending' = setupPending + 1
  /\ last' = Op("setup", "-", "-", "call")
  /\ UNCHANGED << captureVars, sockets, _ws, _audioOutputElement, frameVars >>

\* new WebSocket(...) starts in CONNECTING; its close listener has reported
\* nothing yet
NewSocket == [readyState |-> "CONNECTING", closeReports |-> 0]

\* the address arrived: the rest of _setupWebsocket, then _setupLoopback,
\* whose new audio element is not muted
setup_resolved ==
  /\ setupPending > 0
  /\ setupPending' = setupPending - 1
  /\ sockets' = Append(sockets, NewSocket)
  /\ _ws' = Len(sockets) + 1
  /\ _audioOutputElement' = "unmuted"
  /\ last' = Op("setup", "-", "-", "done")
  /\ UNCHANGED << captureVars, frameVars >>

\* ipcRenderer.invoke rejected: setup() rejects before anything is created
setup_rejected ==
  /\ setupPending > 0
  /\ setupPending' = setupPending - 1
  /\ last' = Op("setup", "-", "-", "rejected")
  /\ UNCHANGED << captureVars, sockets, _ws, _audioOutputElement, frameVars >>

\* ------------------------------------------- the WebSocket's own life cycle
ws_open(i) ==
  /\ sockets[i].readyState = "CONNECTING"
  /\ sockets' = [sockets EXCEPT ![i].readyState = "OPEN"]
  /\ last' = Op("ws_open", "-", "-", "-")
  /\ UNCHANGED << captureVars, _ws, setupPending, _audioOutputElement, frameVars >>

\* the peer started the closing handshake
ws_closing(i) ==
  /\ sockets[i].readyState = "OPEN"
  /\ sockets' = [sockets EXCEPT ![i].readyState = "CLOSING"]
  /\ last' = Op("ws_closing", "-", "-", "-")
  /\ UNCHANGED << captureVars, _ws, setupPending, _audioOutputElement, frameVars >>

\* a socket whose "close" event reaches no listener
ws_closeSilent(i) ==
  /\ sockets[i].readyState \in {"CONNECTING", "OPEN", "CLOSING"}
  /\ sockets' = [sockets EXCEPT ![i].readyState = "CLOSED"]
  /\ last' = Op("ws_close", "-", "-", "-")
  /\ UNCHANGED << captureVars, _ws, setupPending, _audioOutputElement, frameVars >>

\* the connection failed or ended: the "close" event runs the listener,
\* which emits one "ERROR"
ws_close(i) ==
  /\ sockets[i].readyState \in {"CONNECTING", "OPEN", "CLOSING"}
  /\ sockets' = [sockets EXCEPT ![i].readyState = "CLOSED",
                                ![i].closeReports = @ + 1]
  /\ last' = Op("ws_close", "-", "-", "-")
  /\ UNCHANGED << captureVars, _ws, setupPending, _audioOutputElement, frameVars >>

\* ---------------------------------------------------- setLoopback(loopback)
\* a loopback switch that silences the bus by detaching what taps it
setLoopbackByDisconnect(loopback) ==
  /\ _audioOutputElement' =
       IF _audioOutputElement = "undefined" THEN "undefined"
       ELSE IF loopback THEN "unmuted" ELSE "muted"
  /\ taps' = [t \in 1..Len(taps) |-> [taps[t] EXCEPT !.attached = loopback]]
  /\ last' = Op("setLoopback", "-", "-", BoolStr(loopback))
  /\ UNCHANGED << captureVars, sockets, _ws, setupPending, startPending, port,
                  produced, sent, handedNotOpen >>

\* before setup() the element is undefined and the assignment throws
setLoopback(loopback) ==
  /\ _audioOutputElement' =
       IF _audioOutputElement = "undefined" THEN "undefined"
       ELSE IF loopback THEN "unmuted" ELSE "muted"
  /\ last' = Op("setLoopback", "-", "-", BoolStr(loopback))
  /\ UNCHANGED << captureVars, sockets, _ws, setupPending, frameVars >>

\* ------------------------------------------------------ start(streamingMode)
BufferSizeOf(streamingMode) ==
  IF streamingMode = "lowLatency" THEN LowLatencyBufferSize
  ELSE PerformanceBufferSize

\* ipcRenderer.send, then the await of audioWorklet.addModule
start(streamingMode) ==
  /\ Len(taps) + SumOver(startPending, Modes) < MaxTaps
  /\ startPending' = [startPending EXCEPT ![streamingMode] = @ + 1]
  /\ last' = Op("startStream", "-", "-", streamingMode)
  /\ UNCHANGED << captureVars, socketVars, taps, port, produced, sent,
                  handedNotOpen >>

\* the pcm-stream node, its handler installed, connected to _audioOutputNode
NewTap(streamingMode) ==
  [bufferSize |-> BufferSizeOf(streamingMode), attached |-> TRUE]

start_resolved(streamingMode) ==
  /\ startPending[streamingMode] > 0
  /\ startPending' = [startPending EXCEPT ![streamingMode] = @ - 1]
  /\ taps' = Append(taps, NewTap(streamingMode))
  /\ last' = Op("startStream", "-", "-", "done")
  /\ UNCHANGED << captureVars, socketVars, port, produced, sent, handedNotOpen >>

\* addModule rejected: start() rejects, no node is made
start_rejected(streamingMode) ==
  /\ startPending[streamingMode] > 0
  /\ startPending' = [startPending EXCEPT ![streamingMode] = @ - 1]
  /\ last' = Op("startStream", "-", "-", "rejected")
  /\ UNCHANGED << captureVars, socketVars, taps, port, produced, sent,
                  handedNotOpen >>

\* ------------------------------------------------- the pcm-stream worklet
\* frames tap t has posted so far
PostedBy(t) == Cardinality({i \in 1..Len(produced) : produced[i].tap = t})

\* a tap attached to the bus has bufferSize new samples: it posts one frame
\* of that many samples to its port
process(t) ==
  /\ taps[t].attached
  /\ Len(produced) < MaxFrames
  /\ Len(port) < MaxPort
  /\ LET frame == [tap |-> t, seq |-> PostedBy(t) + 1, size |-> taps[t].bufferSize]
     IN /\ port' = Append(port, frame)
        /\ produced' = Append(produced, frame)
  /\ last' = Op("process", "-", "-", "-")
  /\ UNCHANGED << captureVars, socketVars, startPending, taps, sent, handedNotOpen >>

\* ------------------------------------------- pcmStreamNode.port.onmessage
\* the guard without its readyState test
CanSendAnyState == _ws # 0

\* this._ws && this._ws.readyState === WebSocket.OPEN
CanSend == _ws # 0 /\ sockets[_ws].readyState = "OPEN"

\* a send that puts the newest frame ahead of the ones already sent
TransmitFirst(q, frame) == << [frame |-> frame, ws |-> _ws] >> \o q

\* this._ws.send(event.data)
Transmit(q, frame) == Append(q, [frame |-> frame, ws |-> _ws])

\* the state the connection is in when a frame is handed over
Connection == IF _ws = 0 THEN "none" ELSE sockets[_ws].readyState

onmessage ==
  /\ port # << >>
  /\ port' = Tail(port)
  /\ sent' = IF CanSend THEN Transmit(sent, Head(port)) ELSE sent
  /\ handedNotOpen' = IF Connection # "OPEN"
                        THEN handedNotOpen \cup {Head(port)}
                        ELSE handedNotOpen
  /\ last' = Op("onmessage", "-", "-", Connection)
  /\ UNCHANGED << captureVars, socketVars, startPending, taps, produced >>

\* ------------------------------------------------------------ specification
\* the source registry: start, stop and mute of captures
CaptureNext ==
  \/ \E v \in ViewIds : startBrowserViewStream(v)
  \/ \E v \in ViewIds, threw \in BOOLEAN : startBrowserViewStream_resolved(v, threw)
  \/ \E v \in ViewIds : startBrowserViewStream_rejected(v)
  \/ \E v \in ViewIds : stopBrowserViewStream(v)
  \/ \E d \in DeviceIds : startExternalAudioCapture(d)
  \/ \E d \in DeviceIds, threw \in BOOLEAN : startExternalAudioCapture_resolved(d, threw)
  \/ \E d \in DeviceIds : startExternalAudioCapture_rejected(d)
  \/ \E d \in DeviceIds : stopExternalAudioCapture(d)
  \/ \E s \in Sources, muted \in BOOLEAN : setMuted(s[1], s[2], muted)

\* the frame path: the socket, the loopback element, the taps and the frames
StreamNext ==
  \/ setup
  \/ setup_resolved
  \/ setup_rejected
  \/ \E i \in 1..Len(sockets) : ws_open(i)
  \/ \E i \in 1..Len(sockets) : ws_closing(i)
  \/ \E i \in 1..Len(sockets) : ws_close(i)
  \/ \E b \in BOOLEAN : setLoopback(b)
  \/ \E m \in Modes : start(m)
  \/ \E m \in Modes : start_resolved(m)
  \/ \E m \in Modes : start_rejected(m)
  \/ \E t \in 1..Len(taps) : process(t)
  \/ onmessage

Next == CaptureNext \/ StreamNext

\* captures being started while taps post frames: the steps of the starts of
\* both kinds next to the steps of the frame path in one streaming mode; the
\* socket is left out, so every frame handed over is dropped
MixNext ==
  \/ \E v \in ViewIds : startBrowserViewStream(v)
  \/ \E v \in ViewIds, threw \in BOOLEAN : startBrowserViewStream_resolved(v, threw)
  \/ \E v \in ViewIds : startBrowserViewStream_rejected(v)
  \/ \E d \in DeviceIds : startExternalAudioCapture(d)
  \/ \E d \in DeviceIds, threw \in BOOLEAN : startExternalAudioCapture_resolved(d, threw)
  \/ \E d \in DeviceIds : startExternalAudioCapture_rejected(d)
  \/ start("lowLatency")
  \/ start_resolved("lowLatency")
  \/ \E t \in 1..Len(taps) : process(t)
  \/ onmessage

\* the two halves share no variable but last, so each is also checked alone
CaptureSpec == Init /\ [][CaptureNext]_vars
StreamSpec  == Init /\ [][StreamNext]_vars
MixSpec     == Init /\ [][MixNext]_vars
Spec        == Init /\ [][Next]_vars

\* ==================================================================== claims
StreamsOf(kind) ==
  IF kind = BrowserView THEN _mediaStreams ELSE _externalAudioStreams
OutputsOf(kind) ==
  IF kind = BrowserView THEN _mediaStreamOutputs ELSE _externalAudioStreamOutputs

\* a source is active when the registry holds a stream for it
Active(s) == s[2] \in DOMAIN StreamsOf(s[1])

\* streams acquired for s whose tracks still run
LiveStreams(s) ==
  {i \in 1..Len(streams) :
     streams[i].kind = s[1] /\ streams[i].key = s[2] /\ ~streams[i].stopped}

\* gain nodes on the mix bus that a still running stream of s feeds
LiveGains(s) ==
  {g \in 1..Len(gains) : gains[g].connected /\ gains[g].stream \in LiveStreams(s)}

\* the step just taken is operation name on source s
Did(name, s) == last'.op = name /\ last'.kind = s[1] /\ last'.key = s[2]

\* C1: for every (kind, id) there is at most one active source: at most one
\* acquired stream that is not released and at most one gain stage of it on
\* the mix bus, because a start for an id that is already active is refused
\* (DuplicateSource) and changes nothing.
C1_AtMostOneSourcePerId ==
  \A s \in Sources :
    /\ Cardinality(LiveStreams(s)) <= 1
    /\ Cardinality(LiveGains(s)) <= 1

\* C2: start, stop and mute on one (kind, id) are serialized: when the last
\* lifecycle call made for (kind, id) is a stop and every start made for it
\* has completed, no source is registered for it and its streams are
\* released, whenever the acquisition completed.
C2_StartThenStopLeavesNothing ==
  \A s \in Sources :
    (lastOp[s] = "stop" /\ pendingCapture[s] = 0)
      => (~Active(s) /\ LiveStreams(s) = {})

\* C3: a stop of an active source, of either kind, stops every track of its
\* stream, takes its gain stage off the mix bus within the same call and
\* leaves neither a stream entry nor a gain entry for (kind, id).
C3_StopReleasesEverything ==
  [][\A s \in Sources :
       (Did("stop", s) /\ Active(s)) =>
         /\ streams'[StreamsOf(s[1])[s[2]]].stopped
         /\ s[2] \notin DOMAIN StreamsOf(s[1])'
         /\ s[2] \notin DOMAIN OutputsOf(s[1])'
         /\ \A g \in 1..Len(gains) :
              gains[g].stream = StreamsOf(s[1])[s[2]] => ~gains'[g].connected
    ]_vars

\* C4: setMuted for a (kind, id) that has no active source (never started,
\* acquisition failed or already stopped) changes no gain value of any node.
C4_SetMutedWithoutSourceIsNoOp ==
  [][\A s \in Sources :
       (Did("setMuted", s) /\ ~Active(s)) => gains' = gains
    ]_vars

\* C5: setMuted on an active source of either kind sets the gain of that
\* source's gain stage to 0 when muted and to 1 when not, and leaves every
\* other gain node as it was.
C5_SetMutedSetsGain ==
  [][\A s \in Sources :
       (Did("setMuted", s) /\ Active(s)) =>
         LET g == OutputsOf(s[1])[s[2]] IN
         /\ gains'[g].value = IF last'.arg = "true" THEN 0 ELSE 1
         /\ \A h \in (1..Len(gains)) \ {g} : gains'[h] = gains[h]
    ]_vars

\* C6: a start that fails, because the stream request is rejected or because
\* a later step throws, leaves the registry as it was and puts no gain node
\* on the mix bus.
C6_FailedStartLeavesNoState ==
  [][(last'.op = "start" /\ last'.arg \in {"rejected", "threw"}) =>
       /\ registryVars' = registryVars
       /\ \A g \in 1..Len(gains') : gains'[g].connected => g \in 1..Len(gains)
    ]_vars

\* frames passed to the socket, in order
SentFrames == [i \in 1..Len(sent) |-> sent[i].frame]
Range(q) == {q[i] : i \in 1..Len(q)}

\* C7: a frame handed to onmessage while the connection is not OPEN is never
\* transmitted, neither then nor after the connection has opened.
C7_NotOpenFramesNeverSent ==
  \A f \in handedNotOpen : f \notin Range(SentFrames)

\* C7 witness: a frame was handed over before the connection opened, the
\* connection is OPEN now and nothing is left to hand over.
C7_Witness ==
  /\ handedNotOpen # {}
  /\ Connection = "OPEN"
  /\ port = << >>

\* the place of a frame in the posting order
PostedAt(f) == CHOOSE i \in 1..Len(produced) : produced[i] = f

C9_OneFrameSizePerRun ==
  \A i, j \in 1..Len(sent) : sent[i].frame.size = sent[j].frame.size

\* C10: start is taken only from Stopped: the streamer is never starting or
\* streaming twice over, so at most one tap is attached to the mix bus or
\* about to be.
C10_AtMostOneTap ==
  Cardinality({t \in 1..Len(taps) : taps[t].attached})
    + SumOver(startPending, Modes) <= 1

\* C11: one connection is established, once, before streaming begins: at
\* most one connection is ever created, and no frame is emitted by the frame
\* streamer while no connection has been created yet.
C11_OneConnectionBeforeStreaming ==
  /\ Len(sockets) <= 1
  /\ produced # << >> => Len(sockets) >= 1

\* C12: every transition of a connection to CLOSED is reported exactly once,
\* and a close makes the component open no connection: a connection is
\* created only by the completion of a setup() call.
C12_ClosedReportedOnceNoRetry ==
  [][/\ \A i \in 1..Len(sockets') :
          sockets'[i].closeReports =
            IF sockets'[i].readyState = "CLOSED" THEN 1 ELSE 0
     /\ last'.op = "ws_close" =>
          (Len(sockets') = Len(sockets) /\ _ws' = _ws /\ setupPending' = setupPending)
     /\ (Len(sockets') # Len(sockets) \/ _ws' # _ws) =>
          (last' = Op("setup", "-", "-", "done") /\ setupPending > 0)
    ]_vars

\* C12 witness: the connection in use closed (after having been open) and the
\* close was the last thing that happened.
C12_Witness ==
  /\ last.op = "ws_close"
  /\ _ws # 0
  /\ sockets[_ws].readyState = "CLOSED"
  /\ sockets[_ws].closeReports = 1
  /\ sent # << >>

\* C13: every registered source has its gain stage on the mix bus and
\* reaches the bus through that gain stage only: the registered gain node is
\* connected and is fed by the registered stream.
C13_LiveSourceIsOnTheBus ==
  \A s \in Sources :
    Active(s) =>
      /\ s[2] \in DOMAIN OutputsOf(s[1])
      /\ gains[OutputsOf(s[1])[s[2]]].connected
      /\ gains[OutputsOf(s[1])[s[2]]].stream = StreamsOf(s[1])[s[2]]

\* registry entries that hold stream i
HoldersOf(i) == {s \in Sources : Active(s) /\ StreamsOf(s[1])[s[2]] = i}

\* C16: every stream that was acquired and whose tracks are not stopped is
\* held by exactly one registry entry, so stop can always release it.
C16_RunningStreamIsOwned ==
  \A i \in 1..Len(streams) :
    ~streams[i].stopped => Cardinality(HoldersOf(i)) = 1

\* C17: for an active source, setMuted(id, true) leaves its gain stage at 0,
\* and a second setMuted(id, true) right after the first changes nothing.
C17_MuteIdempotent ==
  [][\A s \in Sources :
       (Did("setMuted", s) /\ last'.arg = "true" /\ Active(s)) =>
         /\ gains'[OutputsOf(s[1])[s[2]]].value = 0
         /\ last = last' => gains' = gains
    ]_vars

\* C19: for each kind, an id has a stream entry exactly when it has a gain
\* entry.
C19_StreamAndGainEntriesPaired ==
  \A kind \in Kinds : DOMAIN StreamsOf(kind) = DOMAIN OutputsOf(kind)

\* C14: setLoopback changes nothing but the muted flag of the playback
\* element, which becomes the negation of its argument: the taps of the frame
\* streamer, the frames, the registry, the gains and the socket stay as they
\* were.
C14_SetLoopbackOnlyMutesPlayback ==
  [][last'.op = "setLoopback" =>
       /\ UNCHANGED << captureVars, sockets, _ws, setupPending, frameVars >>
       /\ _audioOutputElement # "undefined" =>
            _audioOutputElement' = IF last'.arg = "true" THEN "unmuted" ELSE "muted"
    ]_vars

\* C14 witness: loopback was just switched off while a tap is attached and
\* frames are being transmitted.
C14_Witness ==
  /\ last = Op("setLoopback", "-", "-", "false")
  /\ _audioOutputElement = "muted"
  /\ \E t \in 1..Len(taps) : taps[t].attached
  /\ sent # << >>

\* streams, gain entries and gain values of the external devices stay
ExternalUntouched ==
  /\ _externalAudioStreams' = _externalAudioStreams
  /\ _externalAudioStreamOutputs' = _externalAudioStreamOutputs
  /\ \A k \in DOMAIN _externalAudioStreamOutputs :
       gains'[_externalAudioStreamOutputs[k]] = gains[_externalAudioStreamOutputs[k]]
  /\ \A i \in 1..Len(streams) :
       streams[i].kind = ExternalDevice => streams'[i] = streams[i]

\* streams, gain entries and gain values of the browser views stay
BrowserUntouched ==
  /\ _mediaStreams' = _mediaStreams
  /\ _mediaStreamOutputs' = _mediaStreamOutputs
  /\ \A k \in DOMAIN _mediaStreamOutputs :
       gains'[_mediaStreamOutputs[k]] = gains[_mediaStreamOutputs[k]]
  /\ \A i \in 1..Len(streams) :
       streams[i].kind = BrowserView => streams'[i] = streams[i]

\* C20: a start, stop or setMuted addressed to a browser view id leaves all
\* of the external devices alone and a start or stop addressed to an external
\* device id leaves all of the browser views alone, whatever the ids are.
C20_KindsDoNotShareIds ==
  [][/\ (last'.kind = BrowserView /\ last'.op \in {"start", "stop", "setMuted"})
          => ExternalUntouched
     /\ (last'.kind = ExternalDevice /\ last'.op \in {"start", "stop"})
          => BrowserUntouched
    ]_vars

\* C20 witness: view 5 and device "5" are both registered and view 5 was
\* just muted: its gain is 0 and the gain of device "5" is still 1.
C20_Witness ==
  /\ last = Op("setMuted", BrowserView, "5", "true")
  /\ "5" \in DOMAIN _mediaStreams
  /\ "5" \in DOMAIN _externalAudioStreamOutputs
  /\ gains[_mediaStreamOutputs["5"]].value = 0
  /\ gains[_externalAudioStreamOutputs["5"]].value = 1

\* the registry entries of source o stay
EntriesKept(o) ==
  /\ (o[2] \in DOMAIN StreamsOf(o[1])') = (o[2] \in DOMAIN StreamsOf(o[1]))
  /\ o[2] \in DOMAIN StreamsOf(o[1]) =>
       StreamsOf(o[1])'[o[2]] = StreamsOf(o[1])[o[2]]
  /\ (o[2] \in DOMAIN OutputsOf(o[1])') = (o[2] \in DOMAIN OutputsOf(o[1]))
  /\ o[2] \in DOMAIN OutputsOf(o[1]) =>
       OutputsOf(o[1])'[o[2]] = OutputsOf(o[1])[o[2]]

\* the operations on source o can be called
OperationsEnabled(o) ==
  /\ ENABLED setMuted(o[1], o[2], TRUE)
  /\ o[1] = BrowserView =>
       \A v \in ViewIds : ToKey(v) = o[2] => ENABLED stopBrowserViewStream(v)
  /\ o[1] = ExternalDevice => ENABLED stopExternalAudioCapture(o[2])

\* C15: a start that is pending or fails leaves the others mixing: the step
\* that issues the request, and the step that ends it in failure, change no
\* registry entry of another source, no gain node that exists and nothing of
\* the frame path; and while the request is pending the pending messages can
\* be handled and the other sources can be muted and stopped.
C15_OtherSourcesKeepMixing ==
  [][\A s \in Sources :
       /\ (Did("start", s) /\ last'.arg \in {"call", "rejected", "threw"}) =>
            /\ \A o \in Sources \ {s} : EntriesKept(o)
            /\ \A g \in 1..Len(gains) : gains'[g] = gains[g]
            /\ \A i \in 1..Len(streams) : streams'[i] = streams[i]
            /\ UNCHANGED frameVars
       /\ pendingCapture[s] > 0 =>
            /\ port # << >> => ENABLED onmessage
            /\ \A o \in Sources \ {s} : OperationsEnabled(o)
    ]_vars

\* C15 witness: the request for device "mic-1" was just rejected while
\* another source is registered and on the bus, a tap is attached and a frame
\* has been posted.
C15_Witness ==
  /\ last = Op("start", ExternalDevice, "mic-1", "rejected")
  /\ \E o \in Sources \ {<<ExternalDevice, "mic-1">>} :
       Active(o) /\ gains[OutputsOf(o[1])[o[2]]].connected
  /\ \E t \in 1..Len(taps) : taps[t].attached
  /\ produced # << >>

====
